---- MODULE Spec2Model ----
(***************************************************************************)
(* The aoc-cli wrapper of the advent-of-code template                      *)
(* (src/template/aoc_cli.rs) and the download command handler              *)
(* (src/template/commands/download.rs).                                    *)
(*                                                                         *)
(* Command-line tokens, paths and printed lines are TLA+ strings.  The     *)
(* value of the AOC_YEAR environment variable is a sequence of one-        *)
(* character strings, because get_year parses it character by character.   *)
(***************************************************************************)
EXTENDS Integers, Sequences, FiniteSets, TLC

VARIABLES
    env,      \* the AOC_YEAR environment variable: unset, or its text
    pc,       \* where the running operation stands
    op,       \* the aoc_cli function in progress
    calls,    \* the aoc_cli functions entered so far, with their inputs
    modified, \* the last modify_args invocation: its parameters and its result
    built,    \* the last build_args invocation: its parameters and its result
    argv,     \* the argument list handed to Command::new("aoc")
    spawns,   \* every Command::output() made so far: its arguments, and whether it spawned
    child,    \* the child process
    stdout,   \* what reached the terminal's standard output, in order
    stderr,   \* the lines the handler wrote with eprintln!
    ret,      \* the value each aoc_cli function returned
    handler   \* the download command handler: not running, running, returned, exited

vars == <<env, pc, op, calls, modified, built, argv, spawns, child, stdout, stderr, ret, handler>>

----------------------------------------------------------------------------
(* Bounds of the model.                                                    *)

MaxDay == 2
MaxPart == 2
MaxExitCode == 2
MaxEnvLen == 4

(* Days of the puzzle calendar, with its last day for the two-digit form;  *)
(* parts as submit takes them, with the largest u8.                        *)
Days == (1..MaxDay) \cup {25}
Parts == (1..MaxPart) \cup {255}
Results == {"42", "submit"}
Modes == {"InputOnly", "PuzzleOnly", "InputAndPuzzle"}
Commands == {"read", "download", "submit"}

(* Exit statuses of the child: an exit code, or death by a signal.         *)
ExitStatuses ==
    {[code |-> c, signal |-> 0] : c \in 0..MaxExitCode} \cup {[code |-> 0, signal |-> 9]}

(* What the tool writes on its standard output while it runs.              *)
ToolTexts == {"", "aoc-cli 0.12.0"}

(* The characters an AOC_YEAR value is drawn from.                         *)
EnvChars == {"0", "2", "3", "+", "x"}

RECURSIVE SeqsUpTo(_, _)
SeqsUpTo(S, n) ==
    IF n = 0 THEN {<<>>}
    ELSE LET shorter == SeqsUpTo(S, n - 1)
         IN  shorter \cup {Append(s, c) : s \in {t \in shorter : Len(t) = n - 1}, c \in S}

Unset == [set |-> FALSE, val |-> <<>>]
SetTo(text) == [set |-> TRUE, val |-> text]

(* Values at the edge of the 16-bit range, and signs in odd places.        *)
EnvEdges ==
    { <<"6","5","5","3","5">>, <<"6","5","5","3","6">>, <<"6","5","5","4","0">>,
      <<"7","0","0","0","0">>, <<"+","6","5","5","3","5">>, <<"0","6","5","5","3","6">>,
      <<"6","5","5","3","5","0">>, <<"-","1">>, <<"-">>, <<" ","2","0","2","3">>,
      <<"1","3","1","0","7","2">> }

EnvValues == {Unset} \cup {SetTo(t) : t \in SeqsUpTo(EnvChars, MaxEnvLen) \cup EnvEdges}

EnvSamples ==
    { Unset, SetTo(<<"2","0","2","3">>), SetTo(<<"x">>), SetTo(<<"6","5","5","3","6">>),
      SetTo(<<"+","7">>) }

----------------------------------------------------------------------------
(* Formatting and parsing of integers, as the standard library does them.  *)

DigitChars == <<"0", "1", "2", "3", "4", "5", "6", "7", "8", "9">>

IsDigit(c) == \E i \in 1..10 : DigitChars[i] = c

DigitValue(c) == (CHOOSE i \in 1..10 : DigitChars[i] = c) - 1

(* Display of an unsigned integer: its decimal digits, no padding.         *)
RECURSIVE to_string(_)
to_string(n) ==
    IF n < 10 THEN DigitChars[n + 1]
    ELSE to_string(n \div 10) \o DigitChars[(n % 10) + 1]

U16Max == 2^16 - 1

None == [some |-> FALSE, val |-> 0]
Some(v) == [some |-> TRUE, val |-> v]

(* Accumulation of the digits with checked_mul and checked_add, for an     *)
(* unsigned type whose largest value is max.                               *)
RECURSIVE parse_digits(_, _, _)
parse_digits(digits, acc, max) ==
    IF digits = <<>> THEN Some(acc)
    ELSE IF ~IsDigit(Head(digits)) THEN None
    ELSE IF acc * 10 > max THEN None
    ELSE IF acc * 10 + DigitValue(Head(digits)) > max THEN None
    ELSE parse_digits(Tail(digits), acc * 10 + DigitValue(Head(digits)), max)

(* str::parse for an unsigned integer type: empty text, a lone sign, a     *)
(* minus sign, a character that is no digit and a value above the type's   *)
(* maximum are all errors; one leading "+" is accepted.                    *)
parse_unsigned(text, max) ==
    IF text = <<>> THEN None
    ELSE IF Head(text) \in {"+", "-"} /\ Len(text) = 1 THEN None
    ELSE IF Head(text) = "+" THEN parse_digits(Tail(text), 0, max)
    ELSE parse_digits(text, 0, max)

----------------------------------------------------------------------------
(* src/template/aoc_cli.rs                                                 *)

(* Display of a Day.  The type and its Display live in crate::template,    *)
(* outside aoc_cli.rs; the display form is taken to be the day number in   *)
(* two digits, zero-padded.  The properties use it only through DayDisplay.*)
DayDisplay(day) == IF day < 10 THEN "0" \o to_string(day) ELSE to_string(day)

get_input_path(day) == "data/inputs/" \o DayDisplay(day) \o ".txt"

get_puzzle_path(day) == "data/puzzles/" \o DayDisplay(day) \o ".md"

(* get_year without the 16-bit limit: any value up to 2^31 - 1 is a year.  *)
get_year_wide(e) == IF e.set THEN parse_unsigned(e.val, 2147483647) ELSE None

get_year(e) == IF e.set THEN parse_unsigned(e.val, U16Max) ELSE None

(* DownloadMode::modify_args with the paths of InputOnly and PuzzleOnly    *)
(* exchanged.                                                              *)
modify_args_swapped(mode, input_path, puzzle_path) ==
    <<"--overwrite">> \o
    CASE mode = "InputOnly" -> <<"--input-only", "--input-file", puzzle_path>>
      [] mode = "PuzzleOnly" -> <<"--puzzle-only", "--puzzle-file", input_path>>
      [] mode = "InputAndPuzzle" ->
            <<"--input-file", input_path, "--puzzle-file", puzzle_path>>

modify_args(mode, input_path, puzzle_path) ==
    <<"--overwrite">> \o
    CASE mode = "InputOnly" -> <<"--input-only", "--input-file", input_path>>
      [] mode = "PuzzleOnly" -> <<"--puzzle-only", "--puzzle-file", puzzle_path>>
      [] mode = "InputAndPuzzle" ->
            <<"--input-file", input_path, "--puzzle-file", puzzle_path>>

downloads_input(mode) == mode \in {"InputOnly", "InputAndPuzzle"}

(* downloads_puzzle matching PuzzleOnly alone.                             *)
downloads_puzzle_only(mode) == mode \in {"PuzzleOnly"}

downloads_puzzle(mode) == mode \in {"PuzzleOnly", "InputAndPuzzle"}

(* build_args pushing the command before the options.                      *)
build_args_command_first(command, args, day, e) ==
    LET year == get_year(e)
    IN  args \o <<command>>
             \o (IF year.some THEN <<"--year", to_string(year.val)>> ELSE <<>>)
             \o <<"--day", DayDisplay(day)>>

(* build_args pushing the day before the year.                             *)
build_args_day_first(command, args, day, e) ==
    LET year == get_year(e)
    IN  args \o <<"--day", DayDisplay(day)>>
             \o (IF year.some THEN <<"--year", to_string(year.val)>> ELSE <<>>)
             \o <<command>>

build_args(command, args, day, e) ==
    LET year == get_year(e)
    IN  args \o (IF year.some THEN <<"--year", to_string(year.val)>> ELSE <<>>)
             \o <<"--day", DayDisplay(day), command>>

(* The base flags read hands to build_args.                                *)
read_flags(day) == <<"--description-only", "--puzzle-file", get_puzzle_path(day)>>

(* submit pushing the result before the part.                              *)
submit_positionals_swapped(part, result) == <<result, to_string(part)>>

(* The two tokens submit pushes after the built arguments.                 *)
submit_positionals(part, result) == <<to_string(part), result>>

(* The lines download prints after a successful call (the leading emoji   *)
(* of the two confirmation lines is left out).                             *)
download_lines(day, mode) ==
    <<"---">>
    \o (IF downloads_input(mode)
        THEN <<"Successfully wrote input to \"" \o get_input_path(day) \o "\".">>
        ELSE <<>>)
    \o (IF downloads_puzzle(mode)
        THEN <<"Successfully wrote puzzle to \"" \o get_puzzle_path(day) \o "\".">>
        ELSE <<>>)

----------------------------------------------------------------------------
(* Process output and results.                                             *)

NoStatus == [code |-> -1, signal |-> -1]
NoOutput == [status |-> NoStatus, stdout |-> "", stderr |-> ""]

(* ExitStatus::success                                                     *)
success(status) == status.code = 0 /\ status.signal = 0

NoRet == [kind |-> "none", error |-> "", output |-> NoOutput]
Ok(output) == [kind |-> "Ok", error |-> "", output |-> output]
Err(error, output) == [kind |-> "Err", error |-> error, output |-> output]

is_err(r) == r.kind = "Err"

(* call_aoc_cli returning Ok whatever the exit status.                     *)
call_aoc_cli_result_any_status(output) == Ok(output)

(* What call_aoc_cli returns once the child has exited.                    *)
call_aoc_cli_result(output) ==
    IF success(output.status) THEN Ok(output) ELSE Err("BadExitStatus", output)

(* check failing when the tool reports a failure.                          *)
check_result_by_status(output) ==
    IF success(output.status) THEN Ok(NoOutput) ELSE Err("CommandNotFound", NoOutput)

(* What check returns once the child has exited: Ok(()).                   *)
check_result(output) == Ok(NoOutput)

----------------------------------------------------------------------------
(* The state machine.                                                      *)

Fns == {"check", "read", "download", "submit"}

Call(fn, day, mode, part, result) ==
    [fn |-> fn, day |-> day, mode |-> mode, part |-> part, result |-> result]

NoModified == [mode |-> "", input_path |-> "", puzzle_path |-> "", out |-> <<>>]

NoBuilt == [command |-> "", args |-> <<>>, day |-> 0, out |-> <<>>]

NoChild == [state |-> "none", piped |-> FALSE, output |-> NoOutput]

NoHandler == [state |-> "none", day |-> 0, code |-> -1]

CurrentCall == calls[Len(calls)]

InitRest ==
    /\ pc = "idle"
    /\ op = "none"
    /\ calls = <<>>
    /\ modified = NoModified
    /\ built = NoBuilt
    /\ argv = <<>>
    /\ spawns = <<>>
    /\ child = NoChild
    /\ stdout = <<>>
    /\ stderr = <<>>
    /\ ret = [f \in Fns |-> NoRet]
    /\ handler = NoHandler

Init == env \in EnvSamples /\ InitRest

(* Entering check: Command::new("aoc").arg("-V"), up to the output() call. *)
check_enter ==
    /\ calls' = Append(calls, Call("check", 0, "", 0, ""))
    /\ op' = "check"
    /\ argv' = <<"-V">>
    /\ pc' = "check_output"
    /\ UNCHANGED <<modified, built>>

(* Entering read, download or submit: the arguments are built, up to the   *)
(* output() call of call_aoc_cli.                                          *)
cli_enter(c, command, flags, positionals) ==
    LET out == build_args(command, flags, c.day, env)
    IN  /\ calls' = Append(calls, c)
        /\ op' = c.fn
        /\ built' = [command |-> command, args |-> flags, day |-> c.day, out |-> out]
        /\ argv' = out \o positionals
        /\ pc' = "cli_output"

download_enter(day, mode) ==
    LET input_path == get_input_path(day)
        puzzle_path == get_puzzle_path(day)
        flags == modify_args(mode, input_path, puzzle_path)
    IN  /\ modified' = [mode |-> mode, input_path |-> input_path,
                        puzzle_path |-> puzzle_path, out |-> flags]
        /\ cli_enter(Call("download", day, mode, 0, ""), "download", flags, <<>>)

check ==
    /\ pc = "idle"
    /\ check_enter
    /\ UNCHANGED <<env, spawns, child, stdout, stderr, ret, handler>>

read(day) ==
    /\ pc = "idle"
    /\ cli_enter(Call("read", day, "", 0, ""), "read", read_flags(day), <<>>)
    /\ UNCHANGED <<modified, env, spawns, child, stdout, stderr, ret, handler>>

download(day, download_variants) ==
    /\ pc = "idle"
    /\ download_enter(day, download_variants)
    /\ UNCHANGED <<env, spawns, child, stdout, stderr, ret, handler>>

submit(day, part, result) ==
    /\ pc = "idle"
    /\ cli_enter(Call("submit", day, "", part, result), "submit", <<>>,
                 submit_positionals(part, result))
    /\ UNCHANGED <<modified, env, spawns, child, stdout, stderr, ret, handler>>

(* The download command: handle(day) starts with check().                  *)
handle(day) ==
    /\ pc = "idle"
    /\ handler' = [state |-> "running", day |-> day, code |-> -1]
    /\ check_enter
    /\ UNCHANGED <<env, spawns, child, stdout, stderr, ret>>

(* process::exit(1) after the message on standard error.                   *)
handler_exit(line) ==
    /\ stderr' = Append(stderr, line)
    /\ handler' = [handler EXCEPT !.state = "exited", !.code = 1]
    /\ pc' = "done"
    /\ UNCHANGED <<op, calls, modified, built, argv>>

(* The function returns to a caller other than the handler.                *)
plain_return ==
    /\ pc' = "done"
    /\ UNCHANGED <<op, calls, modified, built, argv, stderr, handler>>

check_failed_line ==
    "command \"aoc\" not found or not callable. Try running \"cargo install aoc-cli\" to install it."

(* Display of AocCommandError, behind the handler's prefix.                *)
download_failed_line(r) ==
    "failed to call aoc-cli: " \o
    (CASE r.error = "CommandNotFound" -> "aoc-cli is not present in environment."
       [] r.error = "CommandNotCallable" -> "aoc-cli could not be called."
       [] r.error = "BadExitStatus" -> "aoc-cli exited with a non-zero status.")

(* The handler going on to download whatever check returned.               *)
handle_after_check_unchecked(r) ==
    /\ download_enter(handler.day, "InputAndPuzzle")
    /\ UNCHANGED <<stderr, handler>>

(* The handler once check has returned r.                                  *)
handle_after_check(r) ==
    IF is_err(r)
    THEN handler_exit(check_failed_line)
    ELSE /\ download_enter(handler.day, "InputAndPuzzle")
         /\ UNCHANGED <<stderr, handler>>

(* The handler once download has returned r.                               *)
handle_after_download(r) ==
    IF is_err(r)
    THEN handler_exit(download_failed_line(r))
    ELSE /\ handler' = [handler EXCEPT !.state = "returned"]
         /\ pc' = "done"
         /\ UNCHANGED <<op, calls, modified, built, argv, stderr>>

Spawned(piped) == [state |-> "running", piped |-> piped, output |-> NoOutput]

SpawnFailed == [state |-> "failed", piped |-> FALSE, output |-> NoOutput]

(* check: output() cannot spawn the tool.                                  *)
check_output_err ==
    /\ pc = "check_output"
    /\ spawns' = Append(spawns, [fn |-> op, args |-> argv, spawned |-> FALSE])
    /\ child' = SpawnFailed
    /\ LET r == Err("CommandNotFound", NoOutput)
       IN  /\ ret' = [ret EXCEPT !["check"] = r]
           /\ IF handler.state = "running" THEN handle_after_check(r) ELSE plain_return
    /\ UNCHANGED <<env, stdout>>

(* check: output() spawns the tool with both streams piped and waits.      *)
check_output_spawn ==
    /\ pc = "check_output"
    /\ spawns' = Append(spawns, [fn |-> op, args |-> argv, spawned |-> TRUE])
    /\ child' = Spawned(TRUE)
    /\ pc' = "check_wait"
    /\ UNCHANGED <<env, op, calls, modified, built, argv, stdout, stderr, ret, handler>>

(* The tool runs and ends.  A piped stream is captured in the Output; an   *)
(* inherited one goes to the terminal and the captured bytes are empty.    *)
child_exit(status, text) ==
    /\ child.state = "running"
    /\ child' = [child EXCEPT !.state = "exited",
                              !.output = [status |-> status,
                                          stdout |-> IF child.piped THEN text ELSE "",
                                          stderr |-> ""]]
    /\ stdout' = IF ~child.piped /\ text # "" THEN Append(stdout, text) ELSE stdout
    /\ UNCHANGED <<env, pc, op, calls, modified, built, argv, spawns, stderr, ret, handler>>

(* check: output() returns the Output of the child; check returns.         *)
check_output_ok ==
    /\ pc = "check_wait"
    /\ child.state = "exited"
    /\ LET r == check_result(child.output)
       IN  /\ ret' = [ret EXCEPT !["check"] = r]
           /\ IF handler.state = "running" THEN handle_after_check(r) ELSE plain_return
    /\ UNCHANGED <<env, spawns, child, stdout>>

(* call_aoc_cli spawning the tool again after a failed spawn.              *)
call_aoc_cli_err_retry ==
    /\ pc = "cli_output"
    /\ Len(spawns) < 4
    /\ spawns' = Append(spawns, [fn |-> op, args |-> argv, spawned |-> FALSE])
    /\ child' = SpawnFailed
    /\ UNCHANGED <<env, pc, op, calls, modified, built, argv, stdout, stderr, ret, handler>>

(* call_aoc_cli: output() cannot spawn the tool.                           *)
call_aoc_cli_err ==
    /\ pc = "cli_output"
    /\ spawns' = Append(spawns, [fn |-> op, args |-> argv, spawned |-> FALSE])
    /\ child' = SpawnFailed
    /\ LET r == Err("CommandNotCallable", NoOutput)
       IN  /\ ret' = [ret EXCEPT ![op] = r]
           /\ IF handler.state = "running" THEN handle_after_download(r) ELSE plain_return
    /\ UNCHANGED <<env, stdout>>

(* call_aoc_cli: output() spawns the tool with inherited streams and waits. *)
call_aoc_cli_spawn ==
    /\ pc = "cli_output"
    /\ spawns' = Append(spawns, [fn |-> op, args |-> argv, spawned |-> TRUE])
    /\ child' = Spawned(FALSE)
    /\ pc' = "cli_wait"
    /\ UNCHANGED <<env, op, calls, modified, built, argv, stdout, stderr, ret, handler>>

(* call_aoc_cli: output() returns the Output of the child, the exit status *)
(* decides the result, download prints its lines on success, and the       *)
(* function returns.                                                       *)
call_aoc_cli_exit ==
    /\ pc = "cli_wait"
    /\ child.state = "exited"
    /\ LET r == call_aoc_cli_result(child.output)
       IN  /\ ret' = [ret EXCEPT ![op] = r]
           /\ stdout' = IF op = "download" /\ ~is_err(r)
                        THEN stdout \o download_lines(CurrentCall.day, CurrentCall.mode)
                        ELSE stdout
           /\ IF handler.state = "running" THEN handle_after_download(r) ELSE plain_return
    /\ UNCHANGED <<env, spawns, child>>

Next ==
    \/ check
    \/ \E day \in Days : read(day)
    \/ \E day \in Days, mode \in Modes : download(day, mode)
    \/ \E day \in Days, part \in Parts, result \in Results : submit(day, part, result)
    \/ \E day \in Days : handle(day)
    \/ check_output_err
    \/ check_output_spawn
    \/ \E status \in ExitStatuses, text \in ToolTexts : child_exit(status, text)
    \/ check_output_ok
    \/ call_aoc_cli_err
    \/ call_aoc_cli_spawn
    \/ call_aoc_cli_exit

Spec == Init /\ [][Next]_vars

----------------------------------------------------------------------------
(* The two argument builders on their own, over every AOC_YEAR value of    *)
(* EnvValues, every flag list of FlagLists and every path of Paths.        *)

FlagLists == { <<>>, <<"--flag-b", "--flag-a", "--flag-b">>, <<"--year", "1999">> }

Paths == {"in.txt", "puzzle.md", get_input_path(1), get_puzzle_path(1)}

InitArgs == env \in EnvValues /\ InitRest

build_args_call(command, args, day) ==
    /\ pc = "idle"
    /\ op' = "build_args"
    /\ built' = [command |-> command, args |-> args, day |-> day,
                 out |-> build_args(command, args, day, env)]
    /\ pc' = "done"
    /\ UNCHANGED <<env, calls, modified, argv, spawns, child, stdout, stderr, ret, handler>>

modify_args_call(mode, input_path, puzzle_path) ==
    /\ pc = "idle"
    /\ op' = "modify_args"
    /\ modified' = [mode |-> mode, input_path |-> input_path, puzzle_path |-> puzzle_path,
                    out |-> modify_args(mode, input_path, puzzle_path)]
    /\ pc' = "done"
    /\ UNCHANGED <<env, calls, built, argv, spawns, child, stdout, stderr, ret, handler>>

NextArgs ==
    \/ \E command \in Commands, args \in FlagLists, day \in Days :
            build_args_call(command, args, day)
    \/ \E mode \in Modes, input_path \in Paths, puzzle_path \in Paths :
            modify_args_call(mode, input_path, puzzle_path)

SpecArgs == InitArgs /\ [][NextArgs]_vars

----------------------------------------------------------------------------
(* Properties.                                                             *)

(* The value of a text of decimal digits, read from the right.             *)
RECURSIVE DecValue(_)
DecValue(digits) ==
    IF digits = <<>> THEN 0
    ELSE DigitValue(digits[Len(digits)]) + 10 * DecValue(SubSeq(digits, 1, Len(digits) - 1))

(* The digits of a year text: the text without one leading plus sign.      *)
YearDigits(text) == IF text # <<>> /\ text[1] = "+" THEN Tail(text) ELSE text

(* The text is a 16-bit unsigned integer: digits only, at least one, and a *)
(* value of at most 65535.                                                 *)
IsU16Text(text) ==
    /\ YearDigits(text) # <<>>
    /\ \A i \in 1..Len(YearDigits(text)) : YearDigits(text)[i] \in
            {"0", "1", "2", "3", "4", "5", "6", "7", "8", "9"}
    /\ DecValue(YearDigits(text)) <= 65535

YearResolved == env.set /\ IsU16Text(env.val)

Positions(seq, token) == {i \in 1..Len(seq) : seq[i] = token}

Text2023 == <<"2", "0", "2", "3">>

(* C1: build_args returns the base flags in their order, then --year and   *)
(* the year if and only if a year override is resolved, then --day and the *)
(* day, then the command name as the last token, and nothing else.         *)
C1_BuildArgsSequence ==
    op = "build_args" =>
        LET out == built.out
            n == Len(built.args)
            y == IF YearResolved THEN 2 ELSE 0
        IN  /\ Len(out) = n + y + 3
            /\ \A i \in 1..n : out[i] = built.args[i]
            /\ YearResolved =>
                   /\ out[n + 1] = "--year"
                   /\ out[n + 2] = to_string(DecValue(YearDigits(env.val)))
            /\ out[n + y + 1] = "--day"
            /\ out[n + y + 2] = DayDisplay(built.day)
            /\ out[n + y + 3] = built.command

C1_Witness ==
    /\ op = "build_args"
    /\ env = SetTo(Text2023)
    /\ built.args = <<"--flag-b", "--flag-a", "--flag-b">>
    /\ built.out = <<"--flag-b", "--flag-a", "--flag-b", "--year", "2023", "--day", "02", "read">>

(* The arguments read, download or submit has built.                       *)
HasBuilt == op \in {"read", "download", "submit"}

(* C2, as stated: the command name is the last token, and --day <day> and  *)
(* then --year <year> stand immediately before it, the day first.          *)
C2_DayThenYear ==
    HasBuilt =>
        LET out == built.out
            n == Len(out)
        IN  /\ out[n] = built.command
            /\ IF YearResolved
               THEN /\ n >= 5
                    /\ out[n - 4] = "--day"
                    /\ out[n - 3] = DayDisplay(built.day)
                    /\ out[n - 2] = "--year"
               ELSE /\ n >= 3
                    /\ out[n - 2] = "--day"
                    /\ out[n - 1] = DayDisplay(built.day)

(* C2, amended: the command name is the last token, --day <day> stands     *)
(* immediately before it, and --year <year>, when a year override is       *)
(* present, stands immediately before --day.                               *)
C2_YearThenDay ==
    HasBuilt =>
        LET out == built.out
            n == Len(out)
        IN  /\ n >= 3
            /\ out[n] = built.command
            /\ built.command = op
            /\ out[n - 2] = "--day"
            /\ out[n - 1] = DayDisplay(built.day)
            /\ YearResolved =>
                   /\ n >= 5
                   /\ out[n - 4] = "--year"
                   /\ out[n - 3] = to_string(DecValue(YearDigits(env.val)))
            /\ ~YearResolved => Positions(out, "--year") = {}

C2_Witness ==
    /\ op = "download"
    /\ CurrentCall.mode = "PuzzleOnly"
    /\ env = SetTo(Text2023)
    /\ SubSeq(built.out, Len(built.out) - 4, Len(built.out))
           = <<"--year", "2023", "--day", "25", "download">>

(* C4: the flags of each download mode.  InputOnly: --input-only and       *)
(* --input-file <input path>, neither --puzzle-file nor --puzzle-only.     *)
(* PuzzleOnly: --puzzle-only and --puzzle-file <puzzle path>, neither      *)
(* --input-file nor --input-only.  InputAndPuzzle: both file flags with    *)
(* their paths, and neither --input-only nor --puzzle-only.                *)
C4_ModeFlags ==
    op = "modify_args" =>
        LET out == modified.out
            Has(flag) == Positions(out, flag) # {}
            HasFile(flag, path) ==
                \E i \in Positions(out, flag) : i < Len(out) /\ out[i + 1] = path
        IN  /\ modified.mode = "InputOnly" =>
                   /\ Has("--input-only")
                   /\ HasFile("--input-file", modified.input_path)
                   /\ ~Has("--puzzle-file")
                   /\ ~Has("--puzzle-only")
            /\ modified.mode = "PuzzleOnly" =>
                   /\ Has("--puzzle-only")
                   /\ HasFile("--puzzle-file", modified.puzzle_path)
                   /\ ~Has("--input-file")
                   /\ ~Has("--input-only")
            /\ modified.mode = "InputAndPuzzle" =>
                   /\ HasFile("--input-file", modified.input_path)
                   /\ HasFile("--puzzle-file", modified.puzzle_path)
                   /\ ~Has("--input-only")
                   /\ ~Has("--puzzle-only")

C4_Witness ==
    /\ op = "modify_args"
    /\ modified.mode = "InputOnly"
    /\ modified.input_path = "data/inputs/01.txt"
    /\ modified.puzzle_path = "data/puzzles/01.md"
    /\ modified.out = <<"--overwrite", "--input-only", "--input-file", "data/inputs/01.txt">>

(* C5: among the tokens build_args appends to the base flags, --year       *)
(* occurs once if AOC_YEAR is set to the text of a 16-bit unsigned integer *)
(* and not at all otherwise (unset, not a number, above 65535); set to     *)
(* 2023, the appended tokens start with --year 2023.                       *)
C5_YearToken ==
    op = "build_args" =>
        LET appended == SubSeq(built.out, Len(built.args) + 1, Len(built.out))
        IN  /\ Cardinality(Positions(appended, "--year")) = IF YearResolved THEN 1 ELSE 0
            /\ env = SetTo(Text2023) =>
                   /\ appended[1] = "--year"
                   /\ appended[2] = "2023"
                   /\ Positions(appended, "2023") = {2}

C5_Witness ==
    /\ op = "build_args"
    /\ env = SetTo(<<"6", "5", "5", "3", "6">>)
    /\ built.args = <<>>
    /\ built.out = <<"--day", "01", "submit">>

(* The Command::output() calls made by fn.                                 *)
SpawnsOf(fn) == {i \in 1..Len(spawns) : spawns[i].fn = fn}

(* The call of fn, when fn has been entered.                               *)
CallsOf(fn) == {i \in 1..Len(calls) : calls[i].fn = fn}

CliFns == {"read", "download", "submit"}

(* C3: the arguments submit hands to the tool are the optional --year and  *)
(* year, --day and the day, the command name submit, then the part in      *)
(* decimal and the result unchanged, and nothing else.                     *)
C3_SubmitArguments ==
    \A i \in SpawnsOf("submit") :
        LET args == spawns[i].args
            c == CurrentCall
            y == IF YearResolved THEN 2 ELSE 0
        IN  /\ Len(args) = y + 5
            /\ YearResolved =>
                   /\ args[1] = "--year"
                   /\ args[2] = to_string(DecValue(YearDigits(env.val)))
            /\ args[y + 1] = "--day"
            /\ args[y + 2] = DayDisplay(c.day)
            /\ args[y + 3] = "submit"
            /\ args[y + 4] = to_string(c.part)
            /\ args[y + 5] = c.result
            /\ SubSeq(args, 1, y + 3) = built.out
            /\ built.args = <<>>

C3_Witness ==
    /\ env = SetTo(Text2023)
    /\ pc = "done"
    /\ ret["submit"].kind = "Ok"
    /\ CurrentCall = Call("submit", 2, "", 255, "42")
    /\ spawns = << [fn |-> "submit", spawned |-> TRUE,
                    args |-> <<"--year", "2023", "--day", "02", "submit", "255", "42">>] >>

ExitedZero == [code |-> 0, signal |-> 0]

(* C6: what read, download or submit returns is decided by the child: a    *)
(* failed spawn gives the error CommandNotCallable; an exit status other   *)
(* than zero gives BadExitStatus holding the Output of the child; an exit  *)
(* status of zero gives Ok holding the Output of the child.                *)
C6_Classification ==
    \A f \in CliFns :
        ret[f].kind # "none" =>
            /\ child.state \in {"failed", "exited"}
            /\ child.state = "failed" =>
                   ret[f] = [kind |-> "Err", error |-> "CommandNotCallable", output |-> NoOutput]
            /\ child.state = "exited" /\ child.output.status # ExitedZero =>
                   ret[f] = [kind |-> "Err", error |-> "BadExitStatus", output |-> child.output]
            /\ child.state = "exited" /\ child.output.status = ExitedZero =>
                   ret[f] = [kind |-> "Ok", error |-> "", output |-> child.output]

C6_Witness ==
    /\ ret["read"].kind = "Err"
    /\ ret["read"].error = "BadExitStatus"
    /\ ret["read"].output.status = [code |-> 2, signal |-> 0]
    /\ child.output.status = [code |-> 2, signal |-> 0]

(* C7: check returns the error CommandNotFound if and only if the tool     *)
(* could not be spawned; once the tool is spawned check returns Ok,        *)
(* whatever the exit status; check returns no other error.                 *)
C7_CheckResult ==
    /\ \A i \in SpawnsOf("check") : spawns[i].args = <<"-V">>
    /\ ret["check"].kind # "none" =>
           /\ Cardinality(SpawnsOf("check")) = 1
           /\ \A i \in SpawnsOf("check") :
                  /\ ~spawns[i].spawned <=>
                         (ret["check"].kind = "Err" /\ ret["check"].error = "CommandNotFound")
                  /\ spawns[i].spawned <=> ret["check"].kind = "Ok"
    /\ pc = "check_wait" => ret["check"].kind = "none"

C7_Witness ==
    /\ op = "check"
    /\ pc = "done"
    /\ child.state = "exited"
    /\ child.output.status = [code |-> 2, signal |-> 0]
    /\ ret["check"].kind = "Ok"

InputLine(day) == "Successfully wrote input to \"data/inputs/" \o DayDisplay(day) \o ".txt\"."

PuzzleLine(day) == "Successfully wrote puzzle to \"data/puzzles/" \o DayDisplay(day) \o ".md\"."

Printed(line) == Positions(stdout, line) # {}

(* C8: no confirmation line is printed unless download has returned Ok;    *)
(* once it has, the input line of the day is printed if and only if the    *)
(* mode is InputOnly or InputAndPuzzle, and the puzzle line if and only if *)
(* the mode is PuzzleOnly or InputAndPuzzle; a failed download returns     *)
(* CommandNotCallable or BadExitStatus.                                    *)
C8_Confirmations ==
    /\ ret["download"].kind # "Ok" =>
           \A d \in Days : ~Printed(InputLine(d)) /\ ~Printed(PuzzleLine(d))
    /\ ret["download"].kind = "Ok" =>
           /\ Printed(InputLine(CurrentCall.day))
                  <=> CurrentCall.mode \in {"InputOnly", "InputAndPuzzle"}
           /\ Printed(PuzzleLine(CurrentCall.day))
                  <=> CurrentCall.mode \in {"PuzzleOnly", "InputAndPuzzle"}
           /\ \A d \in Days \ {CurrentCall.day} :
                  ~Printed(InputLine(d)) /\ ~Printed(PuzzleLine(d))
    /\ ret["download"].kind = "Err" =>
           ret["download"].error \in {"CommandNotCallable", "BadExitStatus"}

C8_Witness ==
    /\ ret["download"].kind = "Ok"
    /\ CurrentCall.mode = "InputOnly"
    /\ stdout = <<"aoc-cli 0.12.0", "---", "Successfully wrote input to \"data/inputs/02.txt\".">>

(* C9: read, download and submit make at most one Command::output() call;  *)
(* when one of them has returned it has made exactly one, and the child of *)
(* that call has exited or was never spawned.                              *)
C9_OneSpawn ==
    \A f \in CliFns :
        /\ Cardinality(SpawnsOf(f)) <= 1
        /\ Cardinality(CallsOf(f)) <= 1
        /\ ret[f].kind # "none" =>
               /\ Cardinality(SpawnsOf(f)) = 1
               /\ child.state \in {"exited", "failed"}
               /\ pc = "done"
        /\ child.state = "running" => ret[f].kind = "none"

C9_Witness ==
    /\ ret["submit"].kind = "Err"
    /\ ret["submit"].error = "CommandNotCallable"
    /\ Cardinality(SpawnsOf("submit")) = 1
    /\ pc = "done"

(* C10: in the handler, a failed check ends the process with status 1      *)
(* before download is entered and before the tool is called for a          *)
(* download; after a successful check download is entered once, for the    *)
(* handler's day and InputAndPuzzle; the process ends with status 1 if and *)
(* only if check or that download returned an error, and the handler       *)
(* returns if and only if the download returned Ok.                        *)
C10_Handler ==
    handler.state # "none" =>
        /\ Len(calls) >= 1 /\ calls[1].fn = "check"
        /\ ret["check"].kind = "Err" =>
               /\ handler.state = "exited"
               /\ handler.code = 1
               /\ Len(calls) = 1
               /\ SpawnsOf("download") = {}
        /\ ret["check"].kind = "none" => Len(calls) = 1 /\ handler.state = "running"
        /\ ret["check"].kind = "Ok" =>
               /\ calls = <<calls[1], Call("download", handler.day, "InputAndPuzzle", 0, "")>>
               /\ Cardinality(SpawnsOf("download")) <= 1
        /\ handler.state = "exited" <=>
               (ret["check"].kind = "Err" \/ ret["download"].kind = "Err")
        /\ handler.state = "exited" => handler.code = 1 /\ pc = "done"
        /\ handler.state = "returned" <=> ret["download"].kind = "Ok"
        /\ handler.state = "returned" => handler.code = -1 /\ pc = "done"
        /\ pc = "done" => handler.state \in {"exited", "returned"}

C10_Witness ==
    /\ handler.state = "exited"
    /\ handler.code = 1
    /\ ret["check"].kind = "Ok"
    /\ ret["download"].error = "BadExitStatus"
    /\ Len(spawns) = 2

====
